---- MODULE Spec2Model ----
(***************************************************************************)
(* Weighted-graph algorithms of the repository:                            *)
(*   src/dijkstra.py     dijkstra, reconstruct_path                        *)
(*   src/bellmanford.py  bellman_ford, reconstruct_path                    *)
(*   src/kruskal.py      UnionFind (find, union, connected), kruskal       *)
(*   src/prim.py         prim                                              *)
(* Each algorithm is a state machine over its local variables; one action  *)
(* is one iteration of the algorithm's outer loop (or one method call of   *)
(* UnionFind).  Every algorithm has a specification of its own; variables  *)
(* that an algorithm does not use keep their initial value.                *)
(***************************************************************************)
EXTENDS Integers, Sequences, FiniteSets

VARIABLES
  pc,          \* position of the running function
  graph,       \* dict node -> list of (neighbor, weight)
  edges,       \* list of (u, v, weight)
  start,       \* source node
  dist,        \* distance table
  prev,        \* predecessor table
  heap,        \* heapq list (dijkstra: (dist, node); prim: (weight, node, parent))
  visited,     \* dijkstra: visited; prim: in_mst
  adds,        \* history: number of times visited.add(u) ran for each node
  pass,        \* bellman_ford: loop variable i of the relaxation passes
  has_negative_cycle,
  table,       \* which algorithm's prev table reconstruct_path was handed
  target,      \* reconstruct_path: target
  node,        \* reconstruct_path: node
  path,        \* reconstruct_path: path
  parent,      \* UnionFind.parent
  rank,        \* UnionFind.rank
  related,     \* history: the pairs {a, b}, a # b, related by the closure of
               \* the pairs handed to union so far
  call,        \* history: the name of the last UnionFind method called
  ret,         \* history: what that call returned
  moved,       \* history: the elements whose parent entry that call changed
  sorted_edges,\* kruskal: sorted_edges
  idx,         \* kruskal: position of the for loop in sorted_edges
  mst_edges,   \* kruskal / prim: mst_edges
  total_weight \* kruskal / prim: total_weight (set on return)

vars == <<pc, graph, edges, start, dist, prev, heap, visited, adds, pass,
          has_negative_cycle, table, target, node, path, parent, rank,
          related, call, ret, moved, sorted_edges, idx, mst_edges,
          total_weight>>

spVars  == <<dist, prev, heap, visited, adds, pass, has_negative_cycle>>
rpVars  == <<table, target, node, path>>
ufVars  == <<parent, rank, related, call, ret, moved>>
mstVars == <<sorted_edges, idx, mst_edges, total_weight>>

(***************************************************************************)
(* Bounds of the model.                                                    *)
(***************************************************************************)
NumNodes == 3
MaxEdges == 3
MaxWeight == 1
NumElements == 4

Nodes == 1..NumNodes
SignedWeights == (0 - MaxWeight)..MaxWeight

\* Python's None (nodes are 1..NumNodes, so 0 is no node).
None == 0
\* float('inf'): a number no finite distance of the bounded graphs reaches (a
\* finite entry is at most (NumNodes - 1) * MaxWeight); Lt treats it as
\* infinity whatever its value.
Inf == NumNodes * MaxWeight + 1

\* a < b on floats with infinity
Lt(a, b) == a # Inf /\ (b = Inf \/ a < b)

EdgeSeqs(W) == UNION {[1..n -> Nodes \X Nodes \X W] : n \in 0..MaxEdges}

\* The adjacency dict whose flat edge list is es.
AdjOf(es) ==
  [u \in Nodes |->
     LET out == SelectSeq(es, LAMBDA e : e[1] = u)
     IN  [i \in 1..Len(out) |-> <<out[i][2], out[i][3]>>]]

NonNegative(g) == \A u \in DOMAIN g : \A i \in 1..Len(g[u]) : g[u][i][2] >= 0

(***************************************************************************)
(* heapq: the list is kept as the sorted sequence of its entries, so that  *)
(* heappop returns the smallest tuple (tuples compare lexicographically).  *)
(***************************************************************************)
RECURSIVE TupleLess(_, _, _)
TupleLess(a, b, i) ==
  IF i > Len(a) \/ i > Len(b) THEN Len(a) < Len(b)
  ELSE IF a[i] # b[i] THEN a[i] < b[i]
  ELSE TupleLess(a, b, i + 1)

heappush(h, e) ==
  LET k == Cardinality({i \in 1..Len(h) : ~TupleLess(e, h[i], 1)})
  IN  SubSeq(h, 1, k) \o <<e>> \o SubSeq(h, k + 1, Len(h))

(***************************************************************************)
(* src/dijkstra.py: dijkstra                                               *)
(***************************************************************************)
\* Lines 27-33: the locals of dijkstra before its while loop.
dijkstra_init(g, s) ==
  [dist    |-> [n \in DOMAIN g |-> IF n = s THEN 0 ELSE Inf],
   prev    |-> [n \in DOMAIN g |-> None],
   heap    |-> <<<<0, s>>>>,
   visited |-> {},
   adds    |-> [n \in DOMAIN g |-> 0]]

\* Lines 48-49: the test that skips a neighbor already in visited.
SkipVisited(st, v) == v \in st.visited

\* Mutant of relax: the candidate distance leaves out current_dist.
relax_no_add(st, u, current_dist, v, weight) ==
  LET new_dist == weight
  IN  IF Lt(new_dist, st.dist[v])
      THEN [st EXCEPT !.dist[v] = new_dist,
                      !.prev[v] = u,
                      !.heap = heappush(@, <<new_dist, v>>)]
      ELSE st

\* Lines 51-57: one edge (u, v, weight) out of the node u just visited.
relax(st, u, current_dist, v, weight) ==
  LET new_dist == current_dist + weight
  IN  IF Lt(new_dist, st.dist[v])
      THEN [st EXCEPT !.dist[v] = new_dist,
                      !.prev[v] = u,
                      !.heap = heappush(@, <<new_dist, v>>)]
      ELSE st

\* Lines 47-57: the for loop over graph[u], from position i on.
RECURSIVE relax_all(_, _, _, _, _)
relax_all(st, adj, u, current_dist, i) ==
  IF i > Len(adj) THEN st
  ELSE relax_all(IF SkipVisited(st, adj[i][1]) THEN st
                 ELSE relax(st, u, current_dist, adj[i][1], adj[i][2]),
                 adj, u, current_dist, i + 1)

\* Mutant of Stale: stale heap entries are processed like fresh ones.
Stale_never(st, u) == FALSE

\* Lines 40-41: the test that discards a stale heap entry.
Stale(st, u) == u \in st.visited

\* Lines 37-57: one iteration of the while loop (st.heap is not empty).
dijkstra_step(g, st) ==
  LET current_dist == Head(st.heap)[1]
      u == Head(st.heap)[2]
      popped == [st EXCEPT !.heap = Tail(@)]
  IN  IF Stale(popped, u) THEN popped
      ELSE relax_all([popped EXCEPT !.visited = @ \cup {u},
                                    !.adds[u] = @ + 1],
                     g[u], u, current_dist, 1)

\* Lines 35-59: the while loop run to its end; what dijkstra returns.
RECURSIVE dijkstra_loop(_, _)
dijkstra_loop(g, st) ==
  IF st.heap = <<>> THEN st ELSE dijkstra_loop(g, dijkstra_step(g, st))

dijkstra(g, s) == dijkstra_loop(g, dijkstra_init(g, s))

\* State after lines 27-33 of a call dijkstra(graph, start).
InitDijkstra ==
  /\ \E es \in EdgeSeqs(SignedWeights) : graph = AdjOf(es)
  /\ start \in Nodes
  /\ edges = <<>>
  /\ pc = "dijkstra"
  /\ LET st == dijkstra_init(graph, start)
     IN  /\ dist = st.dist
         /\ prev = st.prev
         /\ heap = st.heap
         /\ visited = st.visited
         /\ adds = st.adds
  /\ pass = 0
  /\ has_negative_cycle = FALSE
  /\ table = "none" /\ target = None /\ node = None /\ path = <<>>
  /\ parent = <<>> /\ rank = <<>> /\ related = {} /\ call = "none"
  /\ ret = FALSE /\ moved = {}
  /\ sorted_edges = <<>> /\ idx = 0 /\ mst_edges = <<>> /\ total_weight = 0

\* Lines 35-57: one iteration of the while loop.
DijkstraIterate ==
  /\ pc = "dijkstra"
  /\ heap # <<>>
  /\ LET st == dijkstra_step(graph,
                 [dist |-> dist, prev |-> prev, heap |-> heap,
                  visited |-> visited, adds |-> adds])
     IN  /\ dist' = st.dist
         /\ prev' = st.prev
         /\ heap' = st.heap
         /\ visited' = st.visited
         /\ adds' = st.adds
  /\ UNCHANGED <<pc, graph, edges, start, pass, has_negative_cycle>>
  /\ UNCHANGED <<rpVars, ufVars, mstVars>>

\* Lines 35 and 59: the heap is empty, dijkstra returns dist, prev.
DijkstraReturn ==
  /\ pc = "dijkstra"
  /\ heap = <<>>
  /\ pc' = "returned"
  /\ UNCHANGED <<graph, edges, start, spVars, rpVars, ufVars, mstVars>>

NextDijkstra == DijkstraIterate \/ DijkstraReturn

SpecDijkstra == InitDijkstra /\ [][NextDijkstra]_vars

(***************************************************************************)
(* Reference notions on graphs, by enumeration.                            *)
(***************************************************************************)
Range(f) == {f[i] : i \in DOMAIN f}

HasEdge(g, u, v) == \E i \in 1..Len(g[u]) : g[u][i][1] = v

Min(S) == CHOOSE x \in S : \A y \in S : x <= y

\* Weight of the lightest edge u -> v.
EdgeWeight(g, u, v) == Min({g[u][i][2] : i \in {j \in 1..Len(g[u]) : g[u][j][1] = v}})

\* Simple paths from s to t: sequences of distinct nodes joined by edges.
SimplePaths(g, s, t) ==
  {p \in UNION {[1..n -> DOMAIN g] : n \in 1..Cardinality(DOMAIN g)} :
     /\ p[1] = s
     /\ p[Len(p)] = t
     /\ \A i, j \in 1..Len(p) : i # j => p[i] # p[j]
     /\ \A i \in 1..(Len(p) - 1) : HasEdge(g, p[i], p[i + 1])}

RECURSIVE PathWeight(_, _, _)
PathWeight(g, p, i) ==
  IF i >= Len(p) THEN 0
  ELSE EdgeWeight(g, p[i], p[i + 1]) + PathWeight(g, p, i + 1)

Reachable(g, s, t) == SimplePaths(g, s, t) # {}

ShortestWeight(g, s, t) == Min({PathWeight(g, p, 1) : p \in SimplePaths(g, s, t)})

\* C1: when dijkstra returns on a graph with non-negative weights, dist of
\* every node reachable from start is the least weight of a simple path from
\* start to it (0 for start), and every unreachable node has dist = inf and
\* prev = None.
C1_DijkstraShortest ==
  (pc = "returned" /\ NonNegative(graph)) =>
    \A t \in Nodes :
      IF Reachable(graph, start, t)
      THEN dist[t] = ShortestWeight(graph, start, t)
      ELSE dist[t] = Inf /\ prev[t] = None

\* A run that returned on a non-negative graph in which a two-edge path
\* beats a direct edge and some node is unreachable.
C1_Witness ==
  /\ pc = "returned"
  /\ NonNegative(graph)
  /\ \E t \in Nodes : ~Reachable(graph, start, t)
  /\ \E t \in Nodes :
       /\ HasEdge(graph, start, t)
       /\ dist[t] < EdgeWeight(graph, start, t)

(***************************************************************************)
(* src/bellmanford.py: bellman_ford                                        *)
(***************************************************************************)
\* Mutant of NumPasses: one relaxation pass too few.
NumPasses_short(g) == Cardinality(DOMAIN g) - 2

\* Line 31 and the range of line 34: the number of relaxation passes.
NumPasses(g) == Cardinality(DOMAIN g) - 1

\* Line 36 (and 43): can the edge (u, v, weight) still be relaxed?
CanRelax(d, e) == d[e[1]] # Inf /\ Lt(d[e[1]] + e[3], d[e[2]])

\* Mutant of bf_relax: the new distance leaves out the edge's weight.
bf_relax_no_weight(st, e) ==
  IF CanRelax(st.dist, e)
  THEN [st EXCEPT !.dist[e[2]] = st.dist[e[1]],
                  !.prev[e[2]] = e[1]]
  ELSE st

\* Lines 36-38: the body of the inner loop for the edge e = (u, v, weight).
bf_relax(st, e) ==
  IF CanRelax(st.dist, e)
  THEN [st EXCEPT !.dist[e[2]] = st.dist[e[1]] + e[3],
                  !.prev[e[2]] = e[1]]
  ELSE st

\* Lines 35-38: one pass over the edge list, from position i on.
RECURSIVE bf_pass(_, _, _)
bf_pass(st, es, i) ==
  IF i > Len(es) THEN st ELSE bf_pass(bf_relax(st, es[i]), es, i + 1)

\* Lines 41-45: the pass that looks for an edge that can still be relaxed.
bf_check(d, es) == \E i \in 1..Len(es) : CanRelax(d, es[i])

\* State after lines 27-31 of a call bellman_ford(graph, edges, start), edges
\* being the flat edge list of graph in some order.
InitBellmanFord ==
  /\ edges \in EdgeSeqs(SignedWeights)
  /\ graph = AdjOf(edges)
  /\ start \in Nodes
  /\ pc = "bellman_ford"
  /\ dist = [n \in DOMAIN graph |-> IF n = start THEN 0 ELSE Inf]
  /\ prev = [n \in DOMAIN graph |-> None]
  /\ heap = <<>> /\ visited = {} /\ adds = <<>>
  /\ pass = 0
  /\ has_negative_cycle = FALSE
  /\ table = "bellman_ford" /\ target = None /\ node = None /\ path = <<>>
  /\ parent = <<>> /\ rank = <<>> /\ related = {} /\ call = "none"
  /\ ret = FALSE /\ moved = {}
  /\ sorted_edges = <<>> /\ idx = 0 /\ mst_edges = <<>> /\ total_weight = 0

\* Lines 34-38: one iteration of the outer loop, a pass over all edges.
BellmanFordPass ==
  /\ pc = "bellman_ford"
  /\ pass < NumPasses(graph)
  /\ LET st == bf_pass([dist |-> dist, prev |-> prev], edges, 1)
     IN  /\ dist' = st.dist
         /\ prev' = st.prev
  /\ pass' = pass + 1
  /\ UNCHANGED <<pc, graph, edges, start, heap, visited, adds,
                 has_negative_cycle, rpVars, ufVars, mstVars>>

\* Lines 41-47: the check for a negative cycle, and the return.
BellmanFordCheck ==
  /\ pc = "bellman_ford"
  /\ pass >= NumPasses(graph)
  /\ has_negative_cycle' = bf_check(dist, edges)
  /\ pc' = "returned"
  /\ UNCHANGED <<graph, edges, start, dist, prev, heap, visited, adds, pass,
                 rpVars, ufVars, mstVars>>

(***************************************************************************)
(* The consumer of the tables (lines 94-105 of bellmanford.py, 102-110 of  *)
(* dijkstra.py): it may also run dijkstra on the same graph, and it hands  *)
(* a prev table and a target to reconstruct_path.                          *)
(***************************************************************************)
\* dijkstra.py line 102: dist, prev = dijkstra(graph, start).
CallDijkstra ==
  /\ pc = "returned"
  /\ table = "bellman_ford"
  /\ LET st == dijkstra(graph, start)
     IN  /\ dist' = st.dist
         /\ prev' = st.prev
  /\ table' = "dijkstra"
  /\ UNCHANGED <<pc, graph, edges, start, heap, visited, adds, pass,
                 has_negative_cycle, target, node, path, ufVars, mstVars>>

\* A node that is no key of the tables.
Absent == NumNodes + 1
\* The model stops a walk that has collected MaxPath nodes.
MaxPath == 5

\* Mutant of reversed: the path is returned as collected, target first.
reversed_not(p) == p

\* list(reversed(path))
RECURSIVE reversed(_)
reversed(p) == IF p = <<>> THEN <<>> ELSE Append(reversed(Tail(p)), Head(p))

\* Lines 52-53 of reconstruct_path(prev, target).
ReconstructCall(t) ==
  /\ pc = "returned"
  /\ target' = t
  /\ node' = t
  /\ path' = <<>>
  /\ pc' = "reconstruct"
  /\ UNCHANGED <<graph, edges, start, spVars, table, ufVars, mstVars>>

\* Lines 54-56: one iteration of the while loop; prev[node] raises KeyError
\* when node is no key of prev.
ReconstructStep ==
  /\ pc = "reconstruct"
  /\ node # None
  /\ Len(path) < MaxPath
  /\ path' = Append(path, node)
  /\ IF node \in DOMAIN prev
     THEN node' = prev[node] /\ pc' = pc
     ELSE node' = node /\ pc' = "KeyError"
  /\ UNCHANGED <<graph, edges, start, spVars, table, target, ufVars, mstVars>>

\* Lines 54 and 57: node is None, the reversed path is returned.
ReconstructReturn ==
  /\ pc = "reconstruct"
  /\ node = None
  /\ path' = reversed(path)
  /\ pc' = "path_returned"
  /\ UNCHANGED <<graph, edges, start, spVars, table, target, node, ufVars,
                 mstVars>>

NextBellmanFord ==
  \/ BellmanFordPass
  \/ BellmanFordCheck
  \/ CallDijkstra
  \/ \E t \in Nodes \cup {Absent} : ReconstructCall(t)
  \/ ReconstructStep
  \/ ReconstructReturn

SpecBellmanFord == InitBellmanFord /\ [][NextBellmanFord]_vars

(***************************************************************************)
(* Properties of dijkstra's run.                                           *)
(***************************************************************************)
\* Unvisited (0) -> Frontier (1) -> Finalized (2)
Phase(vis, d, v) == IF v \in vis THEN 2 ELSE IF d[v] # Inf THEN 1 ELSE 0

\* C10: in every step of a run of dijkstra, on any graph, no node goes back
\* from Finalized to Frontier or from Frontier to Unvisited, visited.add runs
\* at most once for a node, the dist and prev entries of a node that is in
\* visited after the step are not written by the step, and no dist entry
\* grows.
C10_FinalizedOnce ==
  [][\A v \in Nodes :
       /\ Phase(visited', dist', v) >= Phase(visited, dist, v)
       /\ adds'[v] <= 1
       /\ v \in visited' => dist'[v] = dist[v] /\ prev'[v] = prev[v]
       /\ ~Lt(dist[v], dist'[v])]_vars

\* The loop is about to discard a stale entry: its node is finalized, with
\* a dist that was lowered after the entry was pushed.
C10_Witness ==
  /\ pc = "dijkstra"
  /\ heap # <<>>
  /\ Head(heap)[2] \in visited
  /\ dist[Head(heap)[2]] < Head(heap)[1]
  /\ \E v \in Nodes : v \notin visited /\ dist[v] # Inf

(***************************************************************************)
(* Properties of bellman_ford and of reconstruct_path.                     *)
(***************************************************************************)
\* A cycle of negative total weight through c: a simple path from c to some
\* x, closed by an edge x -> c.
NegativeCycleAt(g, c) ==
  \E x \in DOMAIN g :
    /\ HasEdge(g, x, c)
    /\ \E p \in SimplePaths(g, c, x) :
         PathWeight(g, p, 1) + EdgeWeight(g, x, c) < 0

NegativeCycleReachable(g, s) ==
  \E c \in DOMAIN g : Reachable(g, s, c) /\ NegativeCycleAt(g, c)

\* C2: bellman_ford returns has_negative_cycle = True exactly when a cycle of
\* negative total weight is reachable from start, and it returns after
\* |V| - 1 relaxation passes.
C2_NegativeCycleFlag ==
  (pc = "returned" /\ table = "bellman_ford") =>
    /\ pass = Cardinality(Nodes) - 1
    /\ has_negative_cycle <=> NegativeCycleReachable(graph, start)

\* Scenario 2: nodes A = 1, B = 2, edges (A,B,-1), (B,A,-1), from A.
C2_Witness ==
  /\ pc = "returned"
  /\ table = "bellman_ford"
  /\ edges = << <<1, 2, -1>>, <<2, 1, -1>> >>
  /\ start = 1
  /\ has_negative_cycle

\* C3: reconstruct_path never walks on from a node it has already collected
\* (from there the walk would repeat without end): it stops before.
C3_ReconstructStops ==
  (pc = "reconstruct" /\ node # None) => node \notin Range(path)

\* C6: on a graph with non-negative weights bellman_ford returns the dist
\* table that dijkstra returns for the same graph and start, and no negative
\* cycle.
C6_SameAsDijkstra ==
  (pc = "returned" /\ table = "bellman_ford" /\ NonNegative(graph)) =>
    /\ dist = dijkstra(graph, start).dist
    /\ ~has_negative_cycle

\* bellman_ford returned on a non-negative graph with an unreachable node and
\* a node whose distance is that of a two-edge path, shorter than its direct
\* edge.
C6_Witness ==
  /\ pc = "returned"
  /\ table = "bellman_ford"
  /\ NonNegative(graph)
  /\ \E t \in Nodes : dist[t] = Inf
  /\ \E t \in Nodes :
       /\ HasEdge(graph, start, t)
       /\ prev[t] # start
       /\ dist[t] < EdgeWeight(graph, start, t)

\* The tables come from a run the claim covers.
TrustedTables ==
  \/ table = "dijkstra" /\ NonNegative(graph)
  \/ table = "bellman_ford" /\ ~has_negative_cycle

\* C7: for the tables of dijkstra on a non-negative graph, and of bellman_ford
\* when it reports no negative cycle, and a target reachable from start, the
\* path reconstruct_path returns starts at start, ends at target, follows
\* graph edges (prev[v], v), and its edge weights sum to dist[target].
C7_PathMatchesDist ==
  (pc = "path_returned" /\ TrustedTables /\ Reachable(graph, start, target)) =>
    /\ path # <<>>
    /\ path[1] = start
    /\ path[Len(path)] = target
    /\ \A i \in 1..(Len(path) - 1) :
         /\ prev[path[i + 1]] = path[i]
         /\ HasEdge(graph, path[i], path[i + 1])
    /\ PathWeight(graph, path, 1) = dist[target]

\* A three-node path was returned from bellman_ford's tables on a graph with
\* a negative edge.
C7_Witness ==
  /\ pc = "path_returned"
  /\ table = "bellman_ford"
  /\ ~has_negative_cycle
  /\ ~NonNegative(graph)
  /\ Len(path) = 3
  /\ path[1] = start
  /\ dist[target] < 0

\* The same from dijkstra's tables.
C7_WitnessDijkstra ==
  /\ pc = "path_returned"
  /\ table = "dijkstra"
  /\ NonNegative(graph)
  /\ Len(path) = 3
  /\ dist[target] > 0

(***************************************************************************)
(* src/kruskal.py: UnionFind                                               *)
(***************************************************************************)
Elements == 1..NumElements

\* Lines 24-28: find(x) with path compression; the parent map it leaves and
\* the root it returns.
RECURSIVE find(_, _)
find(par, x) ==
  IF par[x] # x
  THEN LET r == find(par, par[x])
           compressed == [r.parent EXCEPT ![x] = r.ret]
       IN  [parent |-> compressed, ret |-> compressed[x]]
  ELSE [parent |-> par, ret |-> par[x]]

\* Lines 43-49: the two roots are linked by rank.
link(par, rnk, root_x, root_y) ==
  IF rnk[root_x] < rnk[root_y]
  THEN [parent |-> [par EXCEPT ![root_x] = root_y], rank |-> rnk]
  ELSE IF rnk[root_x] > rnk[root_y]
  THEN [parent |-> [par EXCEPT ![root_y] = root_x], rank |-> rnk]
  ELSE [parent |-> [par EXCEPT ![root_y] = root_x],
        rank   |-> [rnk EXCEPT ![root_x] = @ + 1]]

\* Mutant of union: x and y themselves are compared and linked, not their
\* roots.
union_no_find(par, rnk, x, y) ==
  IF x = y
  THEN [parent |-> par, rank |-> rnk, ret |-> FALSE]
  ELSE LET l == link(par, rnk, x, y)
       IN  [parent |-> l.parent, rank |-> l.rank, ret |-> TRUE]

\* Lines 30-51: union(x, y).
union(par, rnk, x, y) ==
  LET fx == find(par, x)
      fy == find(fx.parent, y)
      root_x == fx.ret
      root_y == fy.ret
  IN  IF root_x = root_y
      THEN [parent |-> fy.parent, rank |-> rnk, ret |-> FALSE]
      ELSE LET l == link(fy.parent, rnk, root_x, root_y)
           IN  [parent |-> l.parent, rank |-> l.rank, ret |-> TRUE]

\* Mutant of connected: the parents of x and y are compared, not their roots.
connected_parents(par, x, y) == [parent |-> par, ret |-> par[x] = par[y]]

\* Lines 53-55: connected(x, y).
connected(par, x, y) ==
  LET fx == find(par, x)
      fy == find(fx.parent, y)
  IN  [parent |-> fy.parent, ret |-> fx.ret = fy.ret]

\* The elements related to those of S by the reflexive-symmetric-transitive
\* closure of the pairs in P.
RECURSIVE ClassOf(_, _)
ClassOf(P, S) ==
  LET T == S \cup {b \in Elements : \E a \in S : {a, b} \in P}
  IN  IF T = S THEN S ELSE ClassOf(P, T)

\* The pairs of distinct elements related by that closure.  As the closure of
\* (the closure of P) with one more pair is the closure of P with that pair,
\* related is kept closed call by call.
Closure(P) ==
  UNION {{{a, b} : b \in ClassOf(P, {a}) \ {a}} : a \in Elements}

Related(P, a, b) == a = b \/ {a, b} \in P

Changed(par, par2) == {e \in Elements : par2[e] # par[e]}

\* Lines 20-22: UnionFind(elements).
InitUnionFind ==
  /\ parent = [x \in Elements |-> x]
  /\ rank = [x \in Elements |-> 0]
  /\ related = {}
  /\ call = "__init__"
  /\ ret = FALSE
  /\ moved = {}
  /\ pc = "UnionFind"
  /\ graph = <<>> /\ edges = <<>> /\ start = None
  /\ dist = <<>> /\ prev = <<>> /\ heap = <<>> /\ visited = {} /\ adds = <<>>
  /\ pass = 0 /\ has_negative_cycle = FALSE
  /\ table = "none" /\ target = None /\ node = None /\ path = <<>>
  /\ sorted_edges = <<>> /\ idx = 0 /\ mst_edges = <<>> /\ total_weight = 0

ufFrame == <<pc, graph, edges, start, spVars, rpVars, mstVars>>

\* A call uf.find(x).
Find(x) ==
  /\ pc = "UnionFind"
  /\ call' = "find"
  /\ LET r == find(parent, x)
     IN  parent' = r.parent /\ ret' = r.ret
  /\ moved' = Changed(parent, parent')
  /\ UNCHANGED <<rank, related, ufFrame>>

\* A call uf.union(x, y).
Union(x, y) ==
  /\ pc = "UnionFind"
  /\ call' = "union"
  /\ LET r == union(parent, rank, x, y)
     IN  parent' = r.parent /\ rank' = r.rank /\ ret' = r.ret
  /\ moved' = Changed(parent, parent')
  /\ related' = Closure(related \cup {{x, y}})
  /\ UNCHANGED ufFrame

\* A call uf.connected(x, y).
Connected(x, y) ==
  /\ pc = "UnionFind"
  /\ call' = "connected"
  /\ LET r == connected(parent, x, y)
     IN  parent' = r.parent /\ ret' = r.ret
  /\ moved' = Changed(parent, parent')
  /\ UNCHANGED <<rank, related, ufFrame>>

NextUnionFind ==
  \/ \E x \in Elements : Find(x)
  \/ \E x, y \in Elements : Union(x, y)
  \/ \E x, y \in Elements : Connected(x, y)

SpecUnionFind == InitUnionFind /\ [][NextUnionFind]_vars

\* The root reached from x by following parent, without compression.
RECURSIVE RootOf(_, _)
RootOf(par, x) == IF par[x] = x THEN x ELSE RootOf(par, par[x])

\* C5: after any sequence of union, find and connected calls, connected(a, b)
\* is True for exactly the pairs related by the reflexive-symmetric-transitive
\* closure of the unioned pairs, and a call union(x, y) returns False exactly
\* when x and y were related before the call.
C5_ConnectedIsClosure ==
  /\ [](\A a, b \in Elements :
          connected(parent, a, b).ret <=> Related(related, a, b))
  /\ [][\A x, y \in Elements :
          Union(x, y) => (ret' = FALSE <=> Related(related, x, y))]_vars

\* union has just returned False for two elements of a set of three that two
\* earlier unions built, beside a set that was never merged with it.
C5_Witness ==
  /\ call = "union"
  /\ ret = FALSE
  /\ \E a \in Elements : Cardinality(ClassOf(related, {a})) = 3
  /\ \E a \in Elements : ClassOf(related, {a}) = {a}

\* C9 as stated: a call connected(x, y) leaves parent and rank unchanged.
C9_ConnectedReadOnly ==
  [][\A x, y \in Elements :
       Connected(x, y) => (parent' = parent /\ rank' = rank)]_vars

\* C9 amended: a call connected(x, y) returns find(x) == find(y), leaves rank
\* and every element's root unchanged, and changes parent at most by pointing
\* x, y and their ancestors at their own roots.
C9_ConnectedKeepsSets ==
  [][\A x, y \in Elements :
       Connected(x, y) =>
         /\ ret' = (RootOf(parent, x) = RootOf(parent, y))
         /\ rank' = rank
         /\ \A e \in Elements :
              /\ RootOf(parent', e) = RootOf(parent, e)
              /\ parent'[e] \in {parent[e], RootOf(parent, e)}]_vars

\* connected has just compressed a path: it changed the parent entry of an
\* element.
C9_Witness ==
  /\ call = "connected"
  /\ moved # {}

(***************************************************************************)
(* src/kruskal.py: kruskal                                                 *)
(***************************************************************************)
\* sorted(edges, key=lambda e: e[2]): a stable sort by weight.  insort puts
\* e behind every edge of the sorted list that is not heavier than e.
insort(srt, e) ==
  LET k == Cardinality({i \in 1..Len(srt) : srt[i][3] <= e[3]})
  IN  SubSeq(srt, 1, k) \o <<e>> \o SubSeq(srt, k + 1, Len(srt))

RECURSIVE sorted_from(_, _, _)
sorted_from(srt, es, i) ==
  IF i > Len(es) THEN srt ELSE sorted_from(insort(srt, es[i]), es, i + 1)

\* Mutant of sorted: the edges are left in their input order.
sorted_not(es) == es

\* Line 71.
sorted(es) == sorted_from(<<>>, es, 1)

\* sum(w for _, _, w in mst_edges)
RECURSIVE sum_weights(_)
sum_weights(es) == IF es = <<>> THEN 0 ELSE Head(es)[3] + sum_weights(Tail(es))

\* Lines 71-75: the locals of kruskal(nodes, edges) before its for loop.
kruskal_init(nodes, es) ==
  [sorted_edges |-> sorted(es),
   parent       |-> [x \in nodes |-> x],
   rank         |-> [x \in nodes |-> 0],
   mst_edges    |-> <<>>,
   idx          |-> 1,
   pc           |-> "kruskal"]

\* Lines 78-90: one iteration of the for loop, on sorted_edges[idx].
kruskal_step(nodes, st) ==
  LET e == st.sorted_edges[st.idx]
      c == connected(st.parent, e[1], e[2])
  IN  IF c.ret
      THEN [st EXCEPT !.parent = c.parent, !.idx = @ + 1]
      ELSE LET un == union(c.parent, st.rank, e[1], e[2])
               accepted == Append(st.mst_edges, e)
               complete == Len(accepted) = Cardinality(nodes) - 1
           IN  [st EXCEPT !.parent = un.parent,
                          !.rank = un.rank,
                          !.mst_edges = accepted,
                          !.idx = IF complete THEN @ ELSE @ + 1,
                          !.pc = IF complete THEN "break" ELSE "kruskal"]

\* The for loop is over: the list is exhausted, or line 90 left it.
kruskal_loop_over(st) == st.pc = "break" \/ st.idx > Len(st.sorted_edges)

\* Lines 78-93: the loop run to its end; the mst_edges kruskal returns.
RECURSIVE kruskal_loop(_, _)
kruskal_loop(nodes, st) ==
  IF kruskal_loop_over(st) THEN st
  ELSE kruskal_loop(nodes, kruskal_step(nodes, st))

kruskal(nodes, es) ==
  LET st == kruskal_loop(nodes, kruskal_init(nodes, es))
  IN  [mst_edges |-> st.mst_edges, total_weight |-> sum_weights(st.mst_edges)]

\* State after lines 71-75 of a call kruskal(nodes, edges), nodes being the
\* list of the nodes 1..NumNodes.
InitKruskal ==
  /\ edges \in EdgeSeqs(SignedWeights)
  /\ LET st == kruskal_init(Nodes, edges)
     IN  /\ sorted_edges = st.sorted_edges
         /\ parent = st.parent
         /\ rank = st.rank
         /\ mst_edges = st.mst_edges
         /\ idx = st.idx
         /\ pc = st.pc
  /\ total_weight = 0
  /\ graph = <<>> /\ start = None
  /\ dist = <<>> /\ prev = <<>> /\ heap = <<>> /\ visited = {} /\ adds = <<>>
  /\ pass = 0 /\ has_negative_cycle = FALSE
  /\ table = "none" /\ target = None /\ node = None /\ path = <<>>
  /\ related = {} /\ call = "none" /\ ret = FALSE /\ moved = {}

kruskal_state ==
  [sorted_edges |-> sorted_edges, parent |-> parent, rank |-> rank,
   mst_edges |-> mst_edges, idx |-> idx, pc |-> pc]

\* Lines 78-90: one iteration of the for loop.
KruskalIterate ==
  /\ pc = "kruskal"
  /\ ~kruskal_loop_over(kruskal_state)
  /\ LET st == kruskal_step(Nodes, kruskal_state)
     IN  /\ parent' = st.parent
         /\ rank' = st.rank
         /\ mst_edges' = st.mst_edges
         /\ idx' = st.idx
         /\ pc' = st.pc
  /\ UNCHANGED <<graph, edges, start, spVars, rpVars, related, call, ret,
                 moved, sorted_edges, total_weight>>

\* Lines 92-93: the total is summed and kruskal returns.
KruskalReturn ==
  /\ pc \in {"kruskal", "break"}
  /\ kruskal_loop_over(kruskal_state)
  /\ total_weight' = sum_weights(mst_edges)
  /\ pc' = "returned"
  /\ UNCHANGED <<graph, edges, start, spVars, rpVars, ufVars, sorted_edges,
                 idx, mst_edges>>

NextKruskal == KruskalIterate \/ KruskalReturn

SpecKruskal == InitKruskal /\ [][NextKruskal]_vars

(***************************************************************************)
(* Reference notions on undirected graphs given as edge lists.             *)
(***************************************************************************)
\* The nodes joined to those of S by the edges es[i], i in I, in either
\* direction.
RECURSIVE Component(_, _, _)
Component(es, I, S) ==
  LET T == S \cup {n \in Nodes : \E i \in I :
                     \/ es[i][1] \in S /\ es[i][2] = n
                     \/ es[i][2] \in S /\ es[i][1] = n}
  IN  IF T = S THEN S ELSE Component(es, I, T)

Components(es, V) == {Component(es, DOMAIN es, {n}) : n \in V}

\* No cycle among the edges of es: no edge joins two nodes that the other
\* edges join already (a self-loop joins a node to itself).
Acyclic(es) ==
  \A i \in DOMAIN es :
    es[i][2] \notin Component(es, DOMAIN es \ {i}, {es[i][1]})

\* es is a subsequence of the list all: edges of all, each taken once.
IsSublist(es, all) ==
  \E f \in [DOMAIN es -> DOMAIN all] :
    /\ \A i \in DOMAIN es : all[f[i]] = es[i]
    /\ \A i, j \in DOMAIN es : i # j => f[i] # f[j]

WeightOf(es, I) == sum_weights(SelectSeq([i \in DOMAIN es |-> IF i \in I THEN es[i] ELSE <<0, 0, 0>>], LAMBDA e : e[1] # 0))

\* The sets of edge positions of es that are spanning trees of the node set V.
SpanningTrees(es, V) ==
  {I \in SUBSET DOMAIN es :
     /\ Cardinality(I) = Cardinality(V) - 1
     /\ \A i \in I : es[i][1] \in V /\ es[i][2] \in V
     /\ \A n \in V : Component(es, I, {n}) = V}

\* C4: what kruskal returns is acyclic, holds |V| minus the number of
\* connected components edges of the input, and total_weight is the sum of
\* their weights; on a connected graph it is a spanning tree, and no spanning
\* tree of the graph weighs less.
C4_KruskalMinimal ==
  pc = "returned" =>
    /\ IsSublist(mst_edges, edges)
    /\ Acyclic(mst_edges)
    /\ Len(mst_edges) = Cardinality(Nodes) - Cardinality(Components(edges, Nodes))
    /\ total_weight = sum_weights(mst_edges)
    /\ Cardinality(Components(edges, Nodes)) = 1 =>
         /\ Len(mst_edges) = Cardinality(Nodes) - 1
         /\ \A n \in Nodes : Component(mst_edges, DOMAIN mst_edges, {n}) = Nodes
         /\ \A I \in SpanningTrees(edges, Nodes) :
              total_weight <= WeightOf(edges, I)

\* The edges of es are a triangle on three nodes.
Triangle(es) ==
  /\ Len(es) = 3
  /\ \A i \in DOMAIN es : es[i][1] # es[i][2]
  /\ \A i, j \in DOMAIN es : i # j => {es[i][1], es[i][2]} # {es[i][1], es[i][2]} \cap {es[j][1], es[j][2]}

\* kruskal returned on a triangle whose heaviest edge comes first in the
\* input: it rejected that edge and accepted the two it read last.
C4_Witness ==
  /\ pc = "returned"
  /\ Triangle(edges)
  /\ edges[1][3] > edges[2][3]
  /\ edges[1][3] > edges[3][3]
  /\ Len(mst_edges) = 2
  /\ total_weight = edges[2][3] + edges[3][3]

\* kruskal returned a forest on a disconnected graph.
C4_WitnessForest ==
  /\ pc = "returned"
  /\ Cardinality(Components(edges, Nodes)) = 2
  /\ Len(mst_edges) = 1
  /\ Len(edges) = 3

(***************************************************************************)
(* src/prim.py: prim                                                       *)
(***************************************************************************)
\* Lines 27-30: the locals of prim(graph, start) before its while loop.  The
\* entry of start is alone in the heap when it is popped, so its None is
\* never compared with a node.
prim_init(g, s) ==
  [in_mst    |-> {},
   mst_edges |-> <<>>,
   heap      |-> <<<<0, s, None>>>>]

\* Lines 47-49: the for loop over graph[u], from position i on.
RECURSIVE push_all(_, _, _, _)
push_all(st, adj, u, i) ==
  IF i > Len(adj) THEN st
  ELSE push_all(IF adj[i][1] \notin st.in_mst
                THEN [st EXCEPT !.heap = heappush(@, <<adj[i][2], adj[i][1], u>>)]
                ELSE st,
                adj, u, i + 1)

\* Mutant of InTree: entries of nodes already in the tree are processed.
InTree_never(st, u) == FALSE

\* Lines 37-38: the test that discards an entry whose node is in the tree.
InTree(st, u) == u \in st.in_mst

\* Lines 34-49: one iteration of the while loop.
prim_step(g, st) ==
  LET weight == Head(st.heap)[1]
      u == Head(st.heap)[2]
      par == Head(st.heap)[3]
      popped == [st EXCEPT !.heap = Tail(@)]
  IN  IF InTree(popped, u) THEN popped
      ELSE push_all([popped EXCEPT
                       !.in_mst = @ \cup {u},
                       !.mst_edges = IF par # None
                                     THEN Append(@, <<par, u, weight>>)
                                     ELSE @],
                    g[u], u, 1)

\* Line 32: the condition of the while loop.
prim_continues(g, st) ==
  st.heap # <<>> /\ Cardinality(st.in_mst) < Cardinality(DOMAIN g)

\* The list with (u, v, w) and (v, u, w) for every edge (u, v, w) of es.
BothWays(es) ==
  [i \in 1..(2 * Len(es)) |->
     IF i % 2 = 1 THEN es[(i + 1) \div 2]
     ELSE <<es[i \div 2][2], es[i \div 2][1], es[i \div 2][3]>>]

\* State after lines 27-30 of a call prim(graph, start), graph being the
\* undirected graph of the edge list edges: every edge is in the adjacency
\* lists of both its ends.
InitPrim ==
  /\ edges \in EdgeSeqs(SignedWeights)
  /\ graph = AdjOf(BothWays(edges))
  /\ start \in Nodes
  /\ pc = "prim"
  /\ LET st == prim_init(graph, start)
     IN  /\ visited = st.in_mst
         /\ mst_edges = st.mst_edges
         /\ heap = st.heap
  /\ total_weight = 0
  /\ dist = <<>> /\ prev = <<>> /\ adds = <<>>
  /\ pass = 0 /\ has_negative_cycle = FALSE
  /\ table = "none" /\ target = None /\ node = None /\ path = <<>>
  /\ parent = <<>> /\ rank = <<>> /\ related = {} /\ call = "none"
  /\ ret = FALSE /\ moved = {}
  /\ sorted_edges = <<>> /\ idx = 0

prim_state == [in_mst |-> visited, mst_edges |-> mst_edges, heap |-> heap]

\* Lines 32-49: one iteration of the while loop.
PrimIterate ==
  /\ pc = "prim"
  /\ prim_continues(graph, prim_state)
  /\ LET st == prim_step(graph, prim_state)
     IN  /\ visited' = st.in_mst
         /\ mst_edges' = st.mst_edges
         /\ heap' = st.heap
  /\ UNCHANGED <<pc, graph, edges, start, dist, prev, adds, pass,
                 has_negative_cycle, rpVars, ufVars, sorted_edges, idx,
                 total_weight>>

\* Lines 32 and 51-52: the loop is over, the total is summed, prim returns.
PrimReturn ==
  /\ pc = "prim"
  /\ ~prim_continues(graph, prim_state)
  /\ total_weight' = sum_weights(mst_edges)
  /\ pc' = "returned"
  /\ UNCHANGED <<graph, edges, start, spVars, rpVars, ufVars, sorted_edges,
                 idx, mst_edges>>

NextPrim == PrimIterate \/ PrimReturn

SpecPrim == InitPrim /\ [][NextPrim]_vars

\* The edges of es with both ends in V.
Within(es, V) == SelectSeq(es, LAMBDA e : e[1] \in V /\ e[2] \in V)

\* What is left for the loop of prim to do: the heap entries to pop and the
\* adjacency entries of the nodes not yet in the tree.
RECURSIVE Work(_, _, _)
Work(g, S, h) ==
  IF S = {} THEN Len(h)
  ELSE LET n == CHOOSE x \in S : TRUE
       IN  Len(g[n]) + Work(g, S \ {n}, h)

\* C8: prim terminates (every iteration lowers Work), and on return, with R
\* the nodes reachable from start: the tree holds exactly R, mst_edges are
\* |R| - 1 edges of the graph that join all of R and touch no other node,
\* and total_weight is their sum, the least weight of a spanning tree of R,
\* which is the total kruskal returns for R and the edges within R.
C8_PrimSpansComponent ==
  /\ [][PrimIterate =>
          Work(graph, Nodes \ visited', heap') < Work(graph, Nodes \ visited, heap)]_vars
  /\ [](pc = "returned" =>
          LET R == Component(edges, DOMAIN edges, {start})
          IN  /\ visited = R
              /\ Len(mst_edges) = Cardinality(R) - 1
              /\ \A i \in DOMAIN mst_edges :
                   \E j \in 1..Len(graph[mst_edges[i][1]]) :
                     graph[mst_edges[i][1]][j] = <<mst_edges[i][2], mst_edges[i][3]>>
              /\ Component(mst_edges, DOMAIN mst_edges, {start}) = R
              /\ total_weight = sum_weights(mst_edges)
              /\ \A I \in SpanningTrees(edges, R) :
                   total_weight <= WeightOf(edges, I)
              /\ total_weight = kruskal(R, Within(edges, R)).total_weight)

\* prim returned a two-edge tree of a triangle whose edges differ in weight,
\* leaving entries in the heap.
C8_Witness ==
  /\ pc = "returned"
  /\ Triangle(edges)
  /\ edges[1][3] > edges[2][3]
  /\ edges[2][3] > edges[3][3]
  /\ Len(mst_edges) = 2
  /\ total_weight = edges[2][3] + edges[3][3]
  /\ heap # <<>>

\* prim returned on a disconnected graph: a node is left out of the tree.
C8_WitnessUnreached ==
  /\ pc = "returned"
  /\ Len(mst_edges) = 1
  /\ Len(edges) = 3
  /\ visited # Nodes

====
